---- MODULE Spec2Model ----
(***************************************************************************)
(* mem-storage: the Memory trait (src/src/lib.rs) over the vector-backed   *)
(* store TestMemory (src/tests/basic.rs).                                  *)
(*                                                                         *)
(* A Value is modelled by its bit pattern written in base 256: a sequence  *)
(* of size_of(V) bytes, least significant digit first.  The bytes a value  *)
(* occupies in the host's memory are those digits in the host's native     *)
(* order, so the pointer casts of try_read / try_write and the to_le /     *)
(* to_be conversions are computed separately, as the code does.            *)
(***************************************************************************)
EXTENDS Integers, Sequences, FiniteSets, TLC

\* ---------------------------------------------------------------- bounds
\* width of usize in the model (the address arithmetic wraps at 2^UsizeBits)
UsizeBits == 6
\* length of the zero-filled store
RamLen == 16
\* number of write operations performed on one store
MaxWrites == 1

USIZE_MAX == 2^UsizeBits - 1

\* ---------------------------------------------------------------- values
Types == {"u8", "i8", "u16", "i16", "u32", "i32", "u64", "i64", "u128", "i128"}

size_of(V) ==
    CASE V \in {"u8", "i8"} -> 1
      [] V \in {"u16", "i16"} -> 2
      [] V \in {"u32", "i32"} -> 4
      [] V \in {"u64", "i64"} -> 8
      [] V \in {"u128", "i128"} -> 16

\* alignment a reference to V requires (the primitive integers are aligned
\* to their size on the 64-bit targets)
align_of(V) == size_of(V)

Reverse(s) == [i \in 1..Len(s) |-> s[Len(s) + 1 - i]]

\* the digit patterns values are drawn from: 0xDDFFEEAA of the tests, whose
\* bytes are pairwise different
Patterns == {<<170, 238, 255, 221>>}
Digits(w, p) == [i \in 1..w |-> p[((i - 1) % Len(p)) + 1]]
Values(V) == {Digits(size_of(V), p) : p \in Patterns}
Bytes == {255}

\* ---------------------------------------------------------------- state
VARIABLES
    ram,              \* TestMemory.ram, the backing bytes
    target_endian,    \* byte order of the host the crate is built for
    overflow_checks,  \* whether the build panics on integer overflow
    base,             \* address of ram[0] modulo the largest alignment
    last,             \* the last call made and how it ended
    nwrites           \* write operations performed so far

vars == <<ram, target_endian, overflow_checks, base, last, nwrites>>

\* the stores of the tests
ReadRam == <<186, 205, 171, 0, 0>>
ZeroRam == [i \in 1..RamLen |-> 0]
Addrs == {0, 1, 4, Len(ram) - 1, Len(ram), USIZE_MAX}

\* ---------------------------------------------------------------- results
Ok(v) == [kind |-> "Ok", ret |-> v, msg |-> ""]
Err == [kind |-> "Err", ret |-> <<>>, msg |-> ""]
Panic(m) == [kind |-> "panic", ret |-> <<>>, msg |-> m]
\* the process is killed at the misaligned access
UbAbort == [kind |-> "ub_abort", ret |-> <<>>, msg |-> ""]
OverflowMsg == "attempt to add with overflow"

\* Result::expect
expect(r, m) == IF r.kind = "Err" THEN Panic(m) ELSE r

\* ---------------------------------------------------------------- Value
swap_bytes(x) == Reverse(x)
to_le(x) == IF target_endian = "little" THEN x ELSE swap_bytes(x)
to_be(x) == IF target_endian = "big" THEN x ELSE swap_bytes(x)

\* *(ptr as *const V): the value whose native representation is `bytes`
from_raw_parts(bytes) == IF target_endian = "little" THEN bytes ELSE Reverse(bytes)
\* slice::from_raw_parts(&val as *const u8, size): the native bytes of val
raw_value(val) == IF target_endian = "little" THEN val ELSE Reverse(val)

\* slice::from_raw_parts requires its pointer to be aligned for V; the store
\* is a byte buffer, so slice.as_ptr() need not be.  Forming the slice from a
\* misaligned pointer is undefined behaviour: a build that checks the
\* precondition, or a host that traps on misaligned loads, ends the process
\* there, and the other builds load the bytes.
Aligned(addr, V) == (base + addr) % align_of(V) = 0

\* ---------------------------------------------------------------- TestMemory
\* Vec::get(addr): one element
get(mem, addr) == IF addr < Len(mem) THEN Ok(<<mem[addr + 1]>>) ELSE Err
\* Vec::get(start..end): a subslice
get_range(mem, start, end) ==
    IF start > end \/ end > Len(mem) THEN Err ELSE Ok(SubSeq(mem, start + 1, end))

try_read_byte(addr) == get(ram, addr)

\* a copy that runs one byte past the view
copy_from_slice_spill(mem, addr, src) ==
    [i \in 1..Len(mem) |->
        IF i - 1 >= addr /\ i - 1 < addr + Len(src) THEN src[i - addr]
        ELSE IF i - 1 = addr + Len(src) THEN src[Len(src)] ELSE mem[i]]

\* slice.copy_from_slice(src) on the view mem[addr .. addr + Len(src)]
copy_from_slice(mem, addr, src) ==
    [i \in 1..Len(mem) |->
        IF i - 1 >= addr /\ i - 1 < addr + Len(src) THEN src[i - addr] ELSE mem[i]]

try_write_byte(addr, byte) ==
    IF get(ram, addr).kind = "Err"
    THEN [res |-> Err, ram |-> ram]
    ELSE [res |-> Ok(<<>>), ram |-> copy_from_slice(ram, addr, <<byte>>)]

\* ---------------------------------------------------------------- Memory
read_byte(addr) == expect(try_read_byte(addr), "failed to read from memory")

write_byte(addr, byte) ==
    LET w == try_write_byte(addr, byte)
    IN  [res |-> expect(w.res, "failed to write to memory"), ram |-> w.ram]

\* the outcomes of try_read::<V>(addr)
try_read(V, addr) ==
    LET size == size_of(V)
        end == addr + size
    IN  IF end > USIZE_MAX /\ overflow_checks
        THEN {Panic(OverflowMsg)}
        ELSE LET slice == get_range(ram, addr, end % (USIZE_MAX + 1))
             IN  IF slice.kind = "Err"
                 THEN {Err}
                 ELSE IF size /= Len(slice.ret)
                 THEN {Panic("assertion failed")}
                 ELSE LET value == to_le(from_raw_parts(slice.ret))
                      IN  IF Aligned(addr, V) THEN {Ok(value)} ELSE {Ok(value), UbAbort}

\* read with the diagnostic of read_byte
read_from(V, addr) == {expect(r, "failed to read from memory") : r \in try_read(V, addr)}

read(V, addr) == {expect(r, "failed to read memory") : r \in try_read(V, addr)}

\* Result::map(Value::to_be), and to_be() on the value read returns
map_to_be(r) == IF r.kind = "Ok" THEN Ok(to_be(r.ret)) ELSE r

try_read_be(V, addr) == {map_to_be(r) : r \in try_read(V, addr)}

read_be(V, addr) == {map_to_be(r) : r \in read(V, addr)}

try_write(V, addr, val) ==
    LET size == size_of(V)
        val_le == to_le(val)
        end == addr + size
    IN  IF end > USIZE_MAX /\ overflow_checks
        THEN [res |-> Panic(OverflowMsg), ram |-> ram]
        ELSE LET slice == get_range(ram, addr, end % (USIZE_MAX + 1))
             IN  IF slice.kind = "Err"
                 THEN [res |-> Err, ram |-> ram]
                 ELSE [res |-> Ok(<<>>),
                       ram |-> copy_from_slice(ram, addr, raw_value(val_le))]

write(V, addr, val) ==
    LET w == try_write(V, addr, val)
    IN  [res |-> expect(w.res, "failed to write memory"), ram |-> w.ram]

try_write_be(V, addr, val) == try_write(V, addr, to_be(val))

write_be(V, addr, val) == write(V, addr, to_be(val))

\* ---------------------------------------------------------------- actions
Call(op, V, addr, val, r) ==
    [op |-> op, ty |-> V, addr |-> addr, val |-> val,
     kind |-> r.kind, ret |-> r.ret, msg |-> r.msg]

ReadOps == {"try_read_byte", "read_byte", "try_read", "read", "try_read_be", "read_be"}

\* A call can be made when no call has aborted.  A read borrows the store
\* immutably and changes nothing but `last`: the calls that can follow it are
\* the calls that can follow the state it was made in, and are taken there.
Running == last.kind \in {"Ok", "Err"} /\ last.op \notin ReadOps

Init ==
    /\ ram \in {ReadRam, ZeroRam}
    /\ target_endian \in {"little", "big"}
    /\ overflow_checks \in BOOLEAN
    /\ base \in {0, 1}
    /\ last = Call("new", "u8", 0, <<>>, Ok(<<>>))
    /\ nwrites = 0

CanRead == Running
CanWrite == Running /\ nwrites < MaxWrites

Reads(op, V, addr, results) ==
    /\ \E r \in results : last' = Call(op, V, addr, <<>>, r)
    /\ UNCHANGED <<ram, target_endian, overflow_checks, base, nwrites>>

Writes(op, V, addr, val, w) ==
    /\ nwrites' = nwrites + 1
    /\ ram' = w.ram
    /\ last' = Call(op, V, addr, val, w.res)
    /\ UNCHANGED <<target_endian, overflow_checks, base>>

TryReadByte ==
    /\ CanRead
    /\ \E a \in Addrs : Reads("try_read_byte", "u8", a, {try_read_byte(a)})
ReadByte ==
    /\ CanRead
    /\ \E a \in Addrs : Reads("read_byte", "u8", a, {read_byte(a)})
TryRead ==
    /\ CanRead
    /\ \E V \in Types, a \in Addrs : Reads("try_read", V, a, try_read(V, a))
Read ==
    /\ CanRead
    /\ \E V \in Types, a \in Addrs : Reads("read", V, a, read(V, a))
TryReadBe ==
    /\ CanRead
    /\ \E V \in Types, a \in Addrs : Reads("try_read_be", V, a, try_read_be(V, a))
ReadBe ==
    /\ CanRead
    /\ \E V \in Types, a \in Addrs : Reads("read_be", V, a, read_be(V, a))

TryWriteByte ==
    /\ CanWrite
    /\ \E a \in Addrs, b \in Bytes :
            Writes("try_write_byte", "u8", a, <<b>>, try_write_byte(a, b))
WriteByte ==
    /\ CanWrite
    /\ \E a \in Addrs, b \in Bytes :
            Writes("write_byte", "u8", a, <<b>>, write_byte(a, b))
TryWrite ==
    /\ CanWrite
    /\ \E V \in Types, a \in Addrs : \E x \in Values(V) :
            Writes("try_write", V, a, x, try_write(V, a, x))
Write ==
    /\ CanWrite
    /\ \E V \in Types, a \in Addrs : \E x \in Values(V) :
            Writes("write", V, a, x, write(V, a, x))
TryWriteBe ==
    /\ CanWrite
    /\ \E V \in Types, a \in Addrs : \E x \in Values(V) :
            Writes("try_write_be", V, a, x, try_write_be(V, a, x))
WriteBe ==
    /\ CanWrite
    /\ \E V \in Types, a \in Addrs : \E x \in Values(V) :
            Writes("write_be", V, a, x, write_be(V, a, x))

Next ==
    \/ TryReadByte
    \/ ReadByte
    \/ TryRead
    \/ Read
    \/ TryReadBe
    \/ ReadBe
    \/ TryWriteByte
    \/ WriteByte
    \/ TryWrite
    \/ Write
    \/ TryWriteBe
    \/ WriteBe

Spec == Init /\ [][Next]_vars

\* ---------------------------------------------------------------- claims
TypedReadOps == {"try_read", "read", "try_read_be", "read_be"}
TypedWriteOps == {"try_write", "write", "try_write_be", "write_be"}
FallibleOps == {"try_read", "try_read_be", "try_write", "try_write_be"}
PanickingOps == {"read", "read_be", "write", "write_be"}

\* the range [addr, addr + size_of(V)) lies inside the store
InBounds(c) == c.addr + size_of(c.ty) <= Len(ram)
\* the store bytes at the range of call c, in address order
Stored(c) == SubSeq(ram, c.addr + 1, c.addr + size_of(c.ty))
Aborted(r) == r.kind \in {"panic", "ub_abort"}
SameOutcome(r, c) == (Aborted(r) /\ Aborted(c)) \/ (r.kind = c.kind /\ r.ret = c.ret)

\* C1: a little-endian write that succeeded, followed by a little-endian read
\* of the same type at the same address, returns the value written.
RoundTripLE ==
    [][(/\ last.op \in {"try_write", "write"}
        /\ last.kind = "Ok"
        /\ last'.op \in {"try_read", "read"}
        /\ last'.ty = last.ty
        /\ last'.addr = last.addr)
       => (last'.kind = "Ok" /\ last'.ret = last.val)]_vars

\* C2: a big-endian write that succeeded, followed by a big-endian read of the
\* same type at the same address, returns the value written.
RoundTripBE ==
    [][(/\ last.op \in {"try_write_be", "write_be"}
        /\ last.kind = "Ok"
        /\ last'.op \in {"try_read_be", "read_be"}
        /\ last'.ty = last.ty
        /\ last'.addr = last.addr)
       => (last'.kind = "Ok" /\ last'.ret = last.val)]_vars

\* C3: try_read / read on an in-bounds range returns the value whose i-th
\* least significant byte is the store byte at addr + i, on either host.
ReadIsLittleEndian ==
    (last.op \in {"try_read", "read"} /\ InBounds(last))
        => (last.kind = "Ok" /\ last.ret = Stored(last))

\* C4: after try_write_be / write_be on an in-bounds range the store holds the
\* value most significant byte first, and after try_write / write least
\* significant byte first, on either host.
WriteLayout ==
    /\ (last.op \in {"try_write_be", "write_be"} /\ InBounds(last))
          => Stored(last) = Reverse(last.val)
    /\ (last.op \in {"try_write", "write"} /\ InBounds(last))
          => Stored(last) = last.val

\* C5: try_read_be / read_be on an in-bounds range returns the value whose
\* most significant byte is the store byte at addr, on either host.
ReadBeIsBigEndian ==
    (last.op \in {"try_read_be", "read_be"} /\ InBounds(last))
        => (last.kind = "Ok" /\ last.ret = Reverse(Stored(last)))

\* C6: a typed write that succeeds changes no byte outside
\* [addr, addr + size_of(V)) and leaves the length of the store as it was.
FrameExact ==
    [][(last'.op \in TypedWriteOps /\ last'.kind = "Ok")
       => /\ Len(ram') = Len(ram)
          /\ \A i \in 1..Len(ram) :
                (i - 1 < last'.addr \/ i - 1 >= last'.addr + size_of(last'.ty))
                    => ram'[i] = ram[i]]_vars

\* a multi-byte value was written strictly inside the read store of the tests,
\* which holds non-zero bytes on both sides of the range
FrameWitness ==
    /\ last.op \in TypedWriteOps
    /\ last.kind = "Ok"
    /\ size_of(last.ty) = 2
    /\ last.addr = 1
    /\ Len(ram) = Len(ReadRam)
    /\ Stored(last) /= SubSeq(ReadRam, 2, 3)
    /\ ram[1] = ReadRam[1]

\* C7: try_write / try_write_be on a range that is not inside the store
\* returns Err and leaves every byte of the store as it was.
AtomicFailure ==
    [][(last'.op \in {"try_write", "try_write_be"}
            /\ last'.addr + size_of(last'.ty) > Len(ram))
       => (last'.kind = "Err" /\ ram' = ram)]_vars

\* C8: on a range that exceeds the store the fallible typed entry points
\* return Err and the panicking ones abort; on a range inside the store none
\* of the eight fails.
OutOfBoundsSignalled ==
    (last.op \in TypedReadOps \cup TypedWriteOps)
        => IF InBounds(last)
           THEN last.kind = "Ok"
           ELSE /\ last.op \in FallibleOps => last.kind = "Err"
                /\ last.op \in PanickingOps => last.kind = "panic"

\* C9: the byte entry points end as the typed entry points at u8 do: the same
\* byte or the same Ok / Err, the same store afterwards, or both abort.
SingleByteIdentity ==
    [][/\ last'.op = "try_read_byte"
          => \A r \in try_read("u8", last'.addr) :
                r.kind = last'.kind /\ r.ret = last'.ret
       /\ last'.op = "read_byte"
          => \A r \in read("u8", last'.addr) \cup read_be("u8", last'.addr) :
                SameOutcome(r, last')
       /\ last'.op = "try_write_byte"
          => LET w == try_write("u8", last'.addr, last'.val)
             IN  w.res.kind = last'.kind /\ w.ram = ram'
       /\ last'.op = "write_byte"
          => \A w \in {write("u8", last'.addr, last'.val),
                       write_be("u8", last'.addr, last'.val)} :
                SameOutcome(w.res, last') /\ w.ram = ram']_vars

\* the fallible counterpart of the panicking call c returns Err
CounterpartErr(c) ==
    CASE c.op = "read_byte" -> try_read_byte(c.addr).kind = "Err"
      [] c.op = "read" -> Err \in try_read(c.ty, c.addr)
      [] c.op = "read_be" -> Err \in try_read_be(c.ty, c.addr)
      [] c.op = "write_byte" -> try_write_byte(c.addr, c.val[1]).res.kind = "Err"
      [] c.op = "write" -> try_write(c.ty, c.addr, c.val).res.kind = "Err"
      [] c.op = "write_be" -> try_write_be(c.ty, c.addr, c.val).res.kind = "Err"
      [] OTHER -> FALSE

\* C10 as stated: every panicking read aborts with "failed to read from
\* memory" and every panicking write with "failed to write to memory".
FixedDiagnostic ==
    CounterpartErr(last)
        => /\ last.kind = "panic"
           /\ last.msg = IF last.op \in ReadOps
                         THEN "failed to read from memory"
                         ELSE "failed to write to memory"

\* C10 as amended: read_byte / write_byte abort with "failed to read from
\* memory" / "failed to write to memory", and read, read_be / write, write_be
\* abort with "failed to read memory" / "failed to write memory".
AbortDiagnostic ==
    CounterpartErr(last)
        => /\ last.kind = "panic"
           /\ last.msg = CASE last.op = "read_byte" -> "failed to read from memory"
                           [] last.op = "write_byte" -> "failed to write to memory"
                           [] last.op \in {"read", "read_be"} -> "failed to read memory"
                           [] last.op \in {"write", "write_be"} -> "failed to write memory"

\* write_be of a multi-byte value aborted on a range whose first byte is in
\* the store and whose last byte is not
AbortWitness ==
    /\ last.op = "write_be"
    /\ last.kind = "panic"
    /\ last.addr < Len(ram)
    /\ ~InBounds(last)
    /\ last.msg = "failed to write memory"
====
